---- MODULE Spec2Model ----
(***************************************************************************)
(* Model of django_cron/__init__.py: Schedule, CronJobBase and             *)
(* CronJobManager (should_run_now, __enter__, __exit__, run).              *)
(*                                                                         *)
(* Time is counted in whole minutes since 00:00 of day 0; every read of    *)
(* timezone.now(), datetime.now() and datetime.today() reads `clock`.      *)
(* Texts (messages, time-of-day strings) are sequences of one-character    *)
(* strings.  Python's None and a missing attribute are the one-element     *)
(* sequences NoneVal and Unset; an optional number of minutes that is None *)
(* is NoneMins.                                                            *)
(*                                                                         *)
(* The manager is "used as a context manager via 'with' statement" (class  *)
(* docstring): one invocation by a caller p is                             *)
(*     with manager: manager.run(force)                                    *)
(* that is __enter__, then run (should_run_now and, when it says so,       *)
(* do()), then __exit__ with the exception run left, if any.               *)
(***************************************************************************)
EXTENDS Integers, Sequences, FiniteSets, TLC

\* ------------------------------------------------------------------ bounds
MaxTicks == 3
MaxLog == 2
NumCallers == 2

\* ------------------------------------------------------- program constants
MinsPerHour == 60
HoursPerDay == 24
MsgLimit == 1000
NoneMins == -1

MinsPerDay == MinsPerHour * HoursPerDay

\* The first clock value of the model: 23:59 of day 0.
InitClock == MinsPerDay - 1
MaxClock == InitClock + MaxTicks

NoneVal == <<"None">>
Unset == <<"Unset">>
Sep == <<"\n", ".", ".", ".", "\n">>

\* ------------------------------------------------------------ Python texts
Max(a, b) == IF a >= b THEN a ELSE b
Min(a, b) == IF a <= b THEN a ELSE b

\* s[i:] of Python, for any integer i.
SliceFrom(s, i) ==
    LET start == IF i < 0 THEN Max(Len(s) + i, 0) ELSE Min(i, Len(s))
    IN  SubSeq(s, start + 1, Len(s))

\* bool(v) of Python for None, a missing value or a text.
Truthy(v) == v # Unset /\ v # NoneVal /\ Len(v) > 0

DigitChar(d) ==
    CASE d = 0 -> "0" [] d = 1 -> "1" [] d = 2 -> "2" [] d = 3 -> "3"
      [] d = 4 -> "4" [] d = 5 -> "5" [] d = 6 -> "6" [] d = 7 -> "7"
      [] d = 8 -> "8" [] d = 9 -> "9"

DigitVal(c) ==
    CASE c = "0" -> 0 [] c = "1" -> 1 [] c = "2" -> 2 [] c = "3" -> 3
      [] c = "4" -> 4 [] c = "5" -> 5 [] c = "6" -> 6 [] c = "7" -> 7
      [] c = "8" -> 8 [] c = "9" -> 9

\* "%s" % n for 0 <= n <= 99: decimal digits, no padding.
StrInt(n) == IF n < 10 THEN <<DigitChar(n)>>
             ELSE <<DigitChar(n \div 10), DigitChar(n % 10)>>

\* int(text) for a text of one or two digits.
ParseInt(s) == IF Len(s) = 1 THEN DigitVal(s[1])
               ELSE 10 * DigitVal(s[1]) + DigitVal(s[2])

\* "%s:%s" % (hour, minute)
FormatHM(h, m) == StrInt(h) \o <<":">> \o StrInt(m)

ColonPos(s) == CHOOSE i \in 1..Len(s) : s[i] = ":"

\* time.strptime(s, "%H:%M") for a well-formed s; of the struct_time only
\* the hour and the minute vary, the other fields are the same defaults
\* for every parsed text.
Strptime(s) ==
    <<ParseInt(SubSeq(s, 1, ColonPos(s) - 1)),
      ParseInt(SubSeq(s, ColonPos(s) + 1, Len(s)))>>

\* a >= b on struct_time values: tuple comparison.
StructTimeGE(a, b) == a[1] > b[1] \/ (a[1] = b[1] /\ a[2] >= b[2])

\* --------------------------------------------------------------- the clock
Hour(t) == (t % MinsPerDay) \div MinsPerHour
Minute(t) == t % MinsPerHour
\* datetime.today().date() as the instant a datetime field is compared with.
TodayDate(t) == (t \div MinsPerDay) * MinsPerDay

\* ------------------------------------------------------------ job classes
T0000 == <<"0", "0", ":", "0", "0">>
T0001 == <<"0", "0", ":", "0", "1">>

Schedule(run_every_mins, run_at_times, retry_after_failure_mins) ==
    [run_every_mins |-> run_every_mins,
     run_at_times |-> run_at_times,
     retry_after_failure_mins |-> retry_after_failure_mins]

\* The schedules of the model: none, every 2 minutes, the same with a retry
\* after 1 minute, the same with a time of day, and two times of day only.
Schedules ==
    {Schedule(NoneMins, << >>, NoneMins),
     Schedule(2, << >>, NoneMins),
     Schedule(2, << >>, 1),
     Schedule(2, <<T0001>>, 1),
     Schedule(NoneMins, <<T0001, T0000>>, NoneMins)}

JobClass(code, schedule, is_cron_job) ==
    [code |-> code, schedule |-> schedule, is_cron_job |-> is_cron_job]

\* The job classes a deployment may register under code "A"; the last one is
\* not a subclass of CronJobBase.
JobClasses ==
    {JobClass("A", s, TRUE) : s \in Schedules}
    \cup {JobClass("A", Schedule(2, << >>, NoneMins), FALSE)}

\* do() returns a status text or None, or raises; the traceback text.
OkMsg == <<"o", "k">>
DoReturns == {OkMsg}
Traceback == <<"E", "r", "r">>

\* ------------------------------------------------------------- the run log
\* CronJobLog rows in the order they were saved.
CronJobLog(code, start_time, end_time, is_success, message, ran_at_time) ==
    [code |-> code, start_time |-> start_time, end_time |-> end_time,
     is_success |-> is_success, message |-> message, ran_at_time |-> ran_at_time]

\* FilterCode with a fault: the filter forgets the code.
FilterCodeAnyCode(lg, code) == {i \in 1..Len(lg) : TRUE}

\* CronJobLog.objects.filter(code=code): the rows' positions.
FilterCode(lg, code) == {i \in 1..Len(lg) : lg[i].code = code}

\* FilterSuccessUntagged with a fault: ran_at_time__isnull=True is left out.
FilterSuccess(lg, code) ==
    {i \in FilterCode(lg, code) : lg[i].is_success}

\* filter(code=code, is_success=True, ran_at_time__isnull=True)
FilterSuccessUntagged(lg, code) ==
    {i \in FilterCode(lg, code) : lg[i].is_success /\ lg[i].ran_at_time = NoneVal}

\* .latest('start_time'): a row of S with the greatest start_time (which one
\* of several rows with an equal start_time is the database's choice);
\* {0} stands for DoesNotExist.
Latest(lg, S) ==
    IF S = {} THEN {0}
    ELSE {i \in S : \A j \in S : lg[j].start_time <= lg[i].start_time}

\* filter(code=code, start_time__gt=today, ran_at_time=time_data) is empty
QsetEmpty(lg, code, today, time_data) ==
    ~ \E i \in FilterCode(lg, code) :
          lg[i].start_time > today /\ lg[i].ran_at_time = time_data

\* --------------------------------------------------------- should_run_now
\* Elapsed with a fault: the minutes are not added.
ElapsedNoMins(now, start_time, mins) == now > start_time

\* Elapsed with a fault: the comparison is not strict.
ElapsedInclusive(now, start_time, mins) == now >= start_time + mins

\* timezone.now() > start_time + timedelta(minutes=mins)
Elapsed(now, start_time, mins) == now > start_time + mins

\* RetryDecides with a fault: the `not` before last_job.is_success is lost.
RetryDecidesOnSuccess(schedule, lg, last) ==
    /\ last # 0
    /\ lg[last].is_success
    /\ schedule.retry_after_failure_mins # NoneMins
    /\ schedule.retry_after_failure_mins # 0

\* lines 67-72: the retry check decides when the last job failed and
\* retry_after_failure_mins is truthy.
RetryDecides(schedule, lg, last) ==
    /\ last # 0
    /\ ~ lg[last].is_success
    /\ schedule.retry_after_failure_mins # NoneMins
    /\ schedule.retry_after_failure_mins # 0

\* lines 86-88: actual_time >= user_time, actual_time parsed from the hour
\* and the minute the two datetime.now() calls of line 87 gave.
SlotTimeReached(hour, minute, time_data) ==
    StructTimeGE(Strptime(FormatHM(hour, minute)), Strptime(time_data))

\* FailureMessage with a fault: the separator is left out of the room the
\* traceback gets.
FailureMessageNoSep(cron_msg, msg) ==
    IF Truthy(cron_msg)
    THEN cron_msg \o Sep \o SliceFrom(msg, -(MsgLimit - Len(cron_msg)))
    ELSE SliceFrom(msg, -MsgLimit)

\* ---------------------------------------------------------------- __exit__
\* lines 115-119: the message of a failed run.
FailureMessage(cron_msg, msg) ==
    IF Truthy(cron_msg)
    THEN cron_msg \o Sep \o SliceFrom(msg, -(MsgLimit - Len(cron_msg) - Len(Sep)))
    ELSE SliceFrom(msg, -MsgLimit)

\* lines 105-128: the row __exit__ hands to save().  ex is the traceback
\* text of the exception the with body left, NoneVal when it left none.
ExitRecord(cron_log, cron_msg, user_time, ex, now) ==
    CronJobLog(cron_log.code, cron_log.start_time, now,
               ex = NoneVal,
               IF ex # NoneVal THEN FailureMessage(cron_msg, ex) ELSE cron_msg,
               IF user_time = Unset THEN NoneVal ELSE user_time)

\* ------------------------------------------------------------------- state
Callers == 1..NumCallers

\* job: the registered job class; clock: the current time; log: the saved
\* rows; mgr[p]: the manager object of caller p; pc[p]: where p is in
\* `with manager: manager.run(force)`; inv[p]: what p's invocation did.
VARIABLES job, clock, log, mgr, pc, inv
vars == <<job, clock, log, mgr, pc, inv>>

\* __init__: a manager right after construction has neither msg, user_time,
\* cron_job nor cron_log.
NewManager(cron_job_class) ==
    [cron_job_class |-> cron_job_class,
     has_cron_job |-> FALSE,
     msg |-> Unset,
     user_time |-> Unset,
     cron_log |-> << >>]

\* What a caller observes of its invocation, and the locals of its
\* should_run_now call: direct (the call is not made by run), called and
\* now (the clock when the call began and when it returned), last and prev
\* (the rows the latest() queries gave, 0 for DoesNotExist), i (the
\* position in run_at_times), hour, minute and today (what lines 87 and 89
\* read), read_len (the rows in the log when the call returned).
NoInvocation ==
    [fresh |-> FALSE, log_before |-> << >>, force |-> FALSE, direct |-> FALSE,
     decided |-> FALSE, ret |-> FALSE, called |-> 0, now |-> 0,
     last |-> 0, prev |-> 0, i |-> 0, hour |-> 0, minute |-> 0, today |-> 0,
     user_time_before |-> Unset,
     did_do |-> FALSE, do_raised |-> FALSE, ex |-> NoneVal,
     save_called |-> FALSE, save_failed |-> FALSE, read_len |-> 0,
     outcome |-> "none"]

\* A row another job, of code "B", saved a minute before the model starts.
OtherJobRow == CronJobLog("B", InitClock - 1, InitClock - 1, TRUE, OkMsg, NoneVal)

InitWith(classes) ==
    /\ job \in classes
    /\ clock = InitClock
    /\ log = <<OtherJobRow>>
    /\ mgr = [p \in Callers |-> NewManager(job)]
    /\ pc = [p \in Callers |-> "idle"]
    /\ inv = [p \in Callers |-> NoInvocation]

Init == InitWith(JobClasses)

\* The job classes whose schedule has no run_at_times.
PlainJobClasses == {c \in JobClasses : c.schedule.run_at_times = << >>}

InitPlain == InitWith(PlainJobClasses)

\* The job classes whose schedule has run_every_mins and run_at_times.
MixedJobClasses ==
    {c \in JobClasses :
        c.schedule.run_every_mins # NoneMins /\ c.schedule.run_at_times # << >>}

InitMixed == InitWith(MixedJobClasses)

\* The clock advances by a minute (a caller whose with statement is over
\* has control back at once).
Tick ==
    /\ clock < MaxClock
    /\ \A p \in Callers : pc[p] # "done"
    /\ clock' = clock + 1
    /\ UNCHANGED <<job, log, mgr, pc, inv>>

\* CronJobManager(cron_job_class): the caller takes a new manager.
Construct(p) ==
    /\ pc[p] = "idle"
    /\ mgr[p] # NewManager(job)
    /\ mgr' = [mgr EXCEPT ![p] = NewManager(job)]
    /\ UNCHANGED <<job, clock, log, pc, inv>>

\* __enter__ (lines 95-99), the start of `with manager:`
Enter(p) ==
    /\ pc[p] = "idle"
    /\ mgr' = [mgr EXCEPT ![p].cron_log =
                 <<[code |-> mgr[p].cron_job_class.code, start_time |-> clock]>>]
    /\ inv' = [inv EXCEPT ![p] =
                 [NoInvocation EXCEPT !.fresh = (mgr[p].msg = Unset),
                                      !.user_time_before = mgr[p].user_time,
                                      !.log_before = log,
                                      !.outcome = "pending"]]
    /\ pc' = [pc EXCEPT ![p] = "entered"]
    /\ UNCHANGED <<job, clock, log>>

\* should_run_now returns ret: run goes on to do() or ends, a direct call
\* hands ret to the caller.
Returns(p, frame, ret) ==
    /\ inv' = [inv EXCEPT ![p] =
                 [frame EXCEPT !.decided = TRUE, !.ret = ret, !.now = clock,
                               !.read_len = Len(log),
                               !.outcome = IF frame.direct THEN "returned"
                                           ELSE frame.outcome]]
    /\ pc' = [pc EXCEPT ![p] = IF frame.direct THEN "done"
                               ELSE IF ret THEN "running" ELSE "exiting"]

\* lines 84-85 and 93: the loop over run_at_times reaches position i.
NextSlot(p, frame, i) ==
    IF i <= Len(mgr[p].cron_job_class.schedule.run_at_times)
    THEN /\ inv' = [inv EXCEPT ![p] = [frame EXCEPT !.i = i]]
         /\ pc' = [pc EXCEPT ![p] = "t_hour"]
    ELSE Returns(p, frame, FALSE)

\* StartDecision with a fault: force is not looked at.
StartDecisionNoForce(p, force, m, frame) ==
    /\ mgr' = [mgr EXCEPT ![p] = [m EXCEPT !.user_time = NoneVal]]
    /\ LET f == [frame EXCEPT !.force = force, !.called = clock] IN
       IF m.cron_job_class.schedule.run_every_mins # NoneMins
       THEN /\ inv' = [inv EXCEPT ![p] = f]
            /\ pc' = [pc EXCEPT ![p] = "q_last"]
       ELSE NextSlot(p, f, 1)

\* lines 56-59 and 84: should_run_now up to its first query or clock read;
\* m is the manager and frame the invocation at the call.
StartDecision(p, force, m, frame) ==
    /\ mgr' = [mgr EXCEPT ![p] = [m EXCEPT !.user_time = NoneVal]]
    /\ LET f == [frame EXCEPT !.force = force, !.called = clock] IN
       IF force
       THEN Returns(p, f, TRUE)
       ELSE IF m.cron_job_class.schedule.run_every_mins # NoneMins
            THEN /\ inv' = [inv EXCEPT ![p] = f]
                 /\ pc' = [pc EXCEPT ![p] = "q_last"]
            ELSE NextSlot(p, f, 1)

\* Run with a fault: the issubclass check of lines 142-143 is left out.
RunUnchecked(p, force) ==
    /\ pc[p] = "entered"
    /\ StartDecision(p, force, [mgr[p] EXCEPT !.has_cron_job = TRUE], inv[p])
    /\ UNCHANGED <<job, clock, log>>

\* run(force) up to the first query or clock read of should_run_now
\* (lines 137-147 and 55-59).
Run(p, force) ==
    /\ pc[p] = "entered"
    /\ IF ~ mgr[p].cron_job_class.is_cron_job
       THEN \* line 143: raise Exception
            /\ inv' = [inv EXCEPT ![p].force = force, ![p].ex = Traceback]
            /\ pc' = [pc EXCEPT ![p] = "exiting"]
            /\ UNCHANGED mgr
       ELSE StartDecision(p, force, [mgr[p] EXCEPT !.has_cron_job = TRUE], inv[p])
    /\ UNCHANGED <<job, clock, log>>

\* manager.should_run_now(force) called by the caller itself, outside
\* run.  Line 51 reads self.cron_job, which only run assigns: on a manager
\* that never ran it raises AttributeError.
ShouldRunNow(p, force) ==
    /\ pc[p] = "idle"
    /\ LET frame == [NoInvocation EXCEPT !.direct = TRUE,
                                         !.fresh = (mgr[p].msg = Unset),
                                         !.user_time_before = mgr[p].user_time,
                                         !.log_before = log,
                                         !.outcome = "pending"] IN
       IF ~ mgr[p].has_cron_job
       THEN /\ inv' = [inv EXCEPT ![p] = [frame EXCEPT !.force = force,
                                                       !.outcome = "raised"]]
            /\ pc' = [pc EXCEPT ![p] = "done"]
            /\ UNCHANGED mgr
       ELSE StartDecision(p, force, mgr[p], frame)
    /\ UNCHANGED <<job, clock, log>>

\* line 64: the latest row of the code, then line 67.
QueryLast(p) ==
    /\ pc[p] = "q_last"
    /\ \E last \in Latest(log, FilterCode(log, mgr[p].cron_job_class.code)) :
          /\ inv' = [inv EXCEPT ![p].last = last]
          /\ pc' = [pc EXCEPT ![p] =
                       IF RetryDecides(mgr[p].cron_job_class.schedule, log, last)
                       THEN "t_retry" ELSE "q_prev"]
    /\ UNCHANGED <<job, clock, log, mgr>>

\* ReadRetry with a fault: inside the retry window the run_at_times are
\* looked at.
ReadRetryThenTimes(p) ==
    /\ pc[p] = "t_retry"
    /\ IF Elapsed(clock, log[inv[p].last].start_time,
                  mgr[p].cron_job_class.schedule.retry_after_failure_mins)
       THEN Returns(p, inv[p], TRUE)
       ELSE NextSlot(p, inv[p], 1)
    /\ UNCHANGED <<job, clock, log, mgr>>

\* lines 69-72: timezone.now() against the failed row's start_time.
ReadRetry(p) ==
    /\ pc[p] = "t_retry"
    /\ Returns(p, inv[p],
               Elapsed(clock, log[inv[p].last].start_time,
                       mgr[p].cron_job_class.schedule.retry_after_failure_mins))
    /\ UNCHANGED <<job, clock, log, mgr>>

\* line 76: the latest untagged success of the code, then lines 79 and 83.
QueryPrev(p) ==
    /\ pc[p] = "q_prev"
    /\ \E prev \in Latest(log, FilterSuccessUntagged(log, mgr[p].cron_job_class.code)) :
          IF prev = 0
          THEN Returns(p, [inv[p] EXCEPT !.prev = prev], TRUE)
          ELSE /\ inv' = [inv EXCEPT ![p].prev = prev]
               /\ pc' = [pc EXCEPT ![p] = "t_every"]
    /\ UNCHANGED <<job, clock, log, mgr>>

\* lines 80-81: timezone.now() against that row's start_time; when the
\* interval has not elapsed the run_at_times follow.
ReadEvery(p) ==
    /\ pc[p] = "t_every"
    /\ IF Elapsed(clock, log[inv[p].prev].start_time,
                  mgr[p].cron_job_class.schedule.run_every_mins)
       THEN Returns(p, inv[p], TRUE)
       ELSE NextSlot(p, inv[p], 1)
    /\ UNCHANGED <<job, clock, log, mgr>>

\* line 87: datetime.now().hour
ReadHour(p) ==
    /\ pc[p] = "t_hour"
    /\ inv' = [inv EXCEPT ![p].hour = Hour(clock)]
    /\ pc' = [pc EXCEPT ![p] = "t_minute"]
    /\ UNCHANGED <<job, clock, log, mgr>>

\* line 87: datetime.now().minute, then the comparison of line 88.
ReadMinute(p) ==
    /\ pc[p] = "t_minute"
    /\ LET frame == [inv[p] EXCEPT !.minute = Minute(clock)]
           time_data == mgr[p].cron_job_class.schedule.run_at_times[inv[p].i] IN
       IF SlotTimeReached(frame.hour, frame.minute, time_data)
       THEN /\ inv' = [inv EXCEPT ![p] = frame]
            /\ pc' = [pc EXCEPT ![p] = "t_today"]
       ELSE NextSlot(p, frame, inv[p].i + 1)
    /\ UNCHANGED <<job, clock, log, mgr>>

\* line 89: datetime.today().date()
ReadToday(p) ==
    /\ pc[p] = "t_today"
    /\ inv' = [inv EXCEPT ![p].today = TodayDate(clock)]
    /\ pc' = [pc EXCEPT ![p] = "q_slot"]
    /\ UNCHANGED <<job, clock, log, mgr>>

\* lines 89-92: the query for a row of the slot, run by `not qset`.
QuerySlot(p) ==
    /\ pc[p] = "q_slot"
    /\ LET time_data == mgr[p].cron_job_class.schedule.run_at_times[inv[p].i] IN
       IF QsetEmpty(log, mgr[p].cron_job_class.code, inv[p].today, time_data)
       THEN /\ mgr' = [mgr EXCEPT ![p].user_time = time_data]
            /\ Returns(p, inv[p], TRUE)
       ELSE /\ NextSlot(p, inv[p], inv[p].i + 1)
            /\ UNCHANGED mgr
    /\ UNCHANGED <<job, clock, log>>

\* A step inside should_run_now, after its start.
DecisionStep(p) ==
    \/ QueryLast(p)
    \/ ReadRetry(p)
    \/ QueryPrev(p)
    \/ ReadEvery(p)
    \/ ReadHour(p)
    \/ ReadMinute(p)
    \/ ReadToday(p)
    \/ QuerySlot(p)

\* line 149: self.msg = self.cron_job.do(), do() returning r.
DoReturn(p, r) ==
    /\ pc[p] = "running"
    /\ mgr' = [mgr EXCEPT ![p].msg = r]
    /\ inv' = [inv EXCEPT ![p].did_do = TRUE]
    /\ pc' = [pc EXCEPT ![p] = "exiting"]
    /\ UNCHANGED <<job, clock, log>>

\* line 149 with do() raising: self.msg is not assigned.
DoRaise(p) ==
    /\ pc[p] = "running"
    /\ inv' = [inv EXCEPT ![p].did_do = TRUE, ![p].do_raised = TRUE,
                          ![p].ex = Traceback]
    /\ pc' = [pc EXCEPT ![p] = "exiting"]
    /\ UNCHANGED <<job, clock, log, mgr>>

\* __exit__ up to line 128, the end of `with manager:`.  Reading self.msg
\* (line 103) of a manager that never assigned it raises AttributeError,
\* which leaves the with statement; otherwise the CronJobLog object gets
\* its is_success, message and ran_at_time, and the clock is read for its
\* end_time.
Exit(p) ==
    /\ pc[p] = "exiting"
    /\ IF mgr[p].msg = Unset
       THEN /\ inv' = [inv EXCEPT ![p].outcome = "raised"]
            /\ mgr' = [mgr EXCEPT ![p].cron_log = << >>]
            /\ pc' = [pc EXCEPT ![p] = "done"]
       ELSE /\ mgr' = [mgr EXCEPT ![p].cron_log =
                         <<ExitRecord(mgr[p].cron_log[1], mgr[p].msg,
                                      mgr[p].user_time, inv[p].ex, clock)>>]
            /\ pc' = [pc EXCEPT ![p] = "saving"]
            /\ UNCHANGED inv
    /\ UNCHANGED <<job, clock, log>>

\* Save with a fault: save() writes over the latest row of the log.
SaveUpdateInPlace(p, save_ok) ==
    /\ pc[p] = "saving"
    /\ save_ok => Len(log) < Len(<<OtherJobRow>>) + MaxLog
    /\ log' = IF save_ok THEN [log EXCEPT ![Len(log)] = mgr[p].cron_log[1]]
              ELSE log
    /\ inv' = [inv EXCEPT ![p].outcome = "returned",
                          ![p].save_called = TRUE,
                          ![p].save_failed = ~ save_ok]
    /\ mgr' = [mgr EXCEPT ![p].cron_log = << >>]
    /\ pc' = [pc EXCEPT ![p] = "done"]
    /\ UNCHANGED <<job, clock>>

\* Save with a fault: the row is stored only when no row was stored since
\* should_run_now returned.
SaveFirstWriterWins(p, save_ok) ==
    /\ pc[p] = "saving"
    /\ save_ok => Len(log) < Len(<<OtherJobRow>>) + MaxLog
    /\ log' = IF save_ok /\ Len(log) = inv[p].read_len
              THEN Append(log, mgr[p].cron_log[1])
              ELSE log
    /\ inv' = [inv EXCEPT ![p].outcome = "returned",
                          ![p].save_called = TRUE,
                          ![p].save_failed = ~ save_ok]
    /\ mgr' = [mgr EXCEPT ![p].cron_log = << >>]
    /\ pc' = [pc EXCEPT ![p] = "done"]
    /\ UNCHANGED <<job, clock>>

\* Save with a fault: a save that failed is tried again and the second try
\* stores the row.
SaveAgain(p, save_ok) ==
    /\ pc[p] = "saving"
    /\ Len(log) < Len(<<OtherJobRow>>) + MaxLog
    /\ log' = Append(log, mgr[p].cron_log[1])
    /\ inv' = [inv EXCEPT ![p].outcome = "returned",
                          ![p].save_called = TRUE,
                          ![p].save_failed = ~ save_ok]
    /\ mgr' = [mgr EXCEPT ![p].cron_log = << >>]
    /\ pc' = [pc EXCEPT ![p] = "done"]
    /\ UNCHANGED <<job, clock>>

\* __exit__ from line 129 on: cron_log.save() stores the row (save_ok) or
\* raises, which is logged; __exit__ returns True.  The CronJobLog object
\* of the invocation is not read again: the next __enter__ replaces it.
\* The callers of the model save at most MaxLog rows.
Save(p, save_ok) ==
    /\ pc[p] = "saving"
    /\ save_ok => Len(log) < Len(<<OtherJobRow>>) + MaxLog
    /\ log' = IF save_ok THEN Append(log, mgr[p].cron_log[1]) ELSE log
    /\ inv' = [inv EXCEPT ![p].outcome = "returned",
                          ![p].save_called = TRUE,
                          ![p].save_failed = ~ save_ok]
    /\ mgr' = [mgr EXCEPT ![p].cron_log = << >>]
    /\ pc' = [pc EXCEPT ![p] = "done"]
    /\ UNCHANGED <<job, clock>>

\* The with statement is over: the caller has control again.
Return(p) ==
    /\ pc[p] = "done"
    /\ pc' = [pc EXCEPT ![p] = "idle"]
    /\ inv' = [inv EXCEPT ![p] = NoInvocation]
    /\ UNCHANGED <<job, clock, log, mgr>>

\* A step of caller p, whose run calls take force from forces.
StepWith(p, forces) ==
    \/ Construct(p)
    \/ Enter(p)
    \/ \E force \in forces : Run(p, force)
    \/ \E force \in forces : ShouldRunNow(p, force)
    \/ DecisionStep(p)
    \/ \E r \in DoReturns : DoReturn(p, r)
    \/ DoRaise(p)
    \/ Exit(p)
    \/ \E save_ok \in BOOLEAN : Save(p, save_ok)
    \/ Return(p)

Step(p) == StepWith(p, BOOLEAN)

\* One caller, one invocation after the other.
Next == Tick \/ Step(1)

Spec == Init /\ [][Next]_vars

\* The same for the job classes of PlainJobClasses: should_run_now never
\* comes to the loop over run_at_times.
PlainStep(p) ==
    \/ Construct(p)
    \/ Enter(p)
    \/ \E force \in BOOLEAN : Run(p, force)
    \/ \E force \in BOOLEAN : ShouldRunNow(p, force)
    \/ QueryLast(p)
    \/ ReadRetry(p)
    \/ QueryPrev(p)
    \/ ReadEvery(p)
    \/ \E r \in DoReturns : DoReturn(p, r)
    \/ DoRaise(p)
    \/ Exit(p)
    \/ \E save_ok \in BOOLEAN : Save(p, save_ok)
    \/ Return(p)

NextPlain == Tick \/ PlainStep(1)

SpecPlain == InitPlain /\ [][NextPlain]_vars

\* The same for the job classes of MixedJobClasses.
SpecMixed == InitMixed /\ [][Next]_vars

\* One caller, one invocation after the other, never with force.
NextUnforced == Tick \/ StepWith(1, {FALSE})

SpecUnforced == Init /\ [][NextUnforced]_vars

\* ---------------------------------------------------------------- messages
\* A text of n characters that differ from place to place (a traceback).
LongText(n) == [i \in 1..n |-> DigitChar(i % 7)]

\* A text of n characters do() returned.
StatusText(n) == [i \in 1..n |-> "s"]

PrefixLen == 50

\* Lengths of self.msg around the room the prefix leaves to the traceback.
StatusLens ==
    {0, 1, PrefixLen, MsgLimit - Len(Sep) - 1, MsgLimit - Len(Sep),
     MsgLimit - Len(Sep) + 1, MsgLimit, MsgLimit + 1}

\* Lengths of the formatted traceback around the two slices.
DetailLens ==
    {1, MsgLimit - PrefixLen - Len(Sep) - 1, MsgLimit - PrefixLen - Len(Sep),
     MsgLimit - 1, MsgLimit, MsgLimit + 1, 2 * MsgLimit}

\* What self.msg holds when __exit__ starts: None, or a text.
StatusTexts == {NoneVal} \cup {StatusText(n) : n \in StatusLens}

\* What the with body left: no exception, or one with this traceback.
Details == {NoneVal} \cup {LongText(n) : n \in DetailLens}

MessageJobClass == JobClass("A", Schedule(NoneMins, << >>, NoneMins), TRUE)

\* Caller 1 is about to leave `with manager:` after a forced run whose
\* do() ran.  The manager was new at __enter__ (fresh, self.user_time not
\* yet assigned), or had run before without do() ever returning (fresh,
\* self.user_time None), or had a self.msg of an earlier run (not fresh).
\* ex is what the with body left: when do() returned, self.msg is what it
\* returned; when do() raised, self.msg is what the manager had before.
InitMessage ==
    /\ job = MessageJobClass
    /\ clock = InitClock
    /\ log = <<OtherJobRow>>
    /\ \E fresh \in BOOLEAN, ex \in Details,
          cron_msg \in StatusTexts \cup {Unset},
          user_time_before \in {Unset, NoneVal} :
          /\ ~ fresh => user_time_before = NoneVal
          /\ (cron_msg = Unset) <=> (fresh /\ ex # NoneVal)
          /\ mgr = [p \in Callers |->
                      IF p = 1
                      THEN [NewManager(job) EXCEPT
                              !.has_cron_job = TRUE,
                              !.msg = cron_msg,
                              !.user_time = NoneVal,
                              !.cron_log = <<[code |-> job.code,
                                              start_time |-> InitClock]>>]
                      ELSE NewManager(job)]
          /\ inv = [p \in Callers |->
                      IF p = 1
                      THEN [NoInvocation EXCEPT
                              !.fresh = fresh,
                              !.user_time_before = user_time_before,
                              !.log_before = <<OtherJobRow>>,
                              !.force = TRUE, !.decided = TRUE, !.ret = TRUE,
                              !.called = InitClock,
                              !.now = InitClock,
                              !.read_len = Len(<<OtherJobRow>>),
                              !.did_do = TRUE,
                              !.do_raised = (ex # NoneVal), !.ex = ex,
                              !.outcome = "pending"]
                      ELSE NoInvocation]
    /\ pc = [p \in Callers |-> IF p = 1 THEN "exiting" ELSE "idle"]

NextMessage == Exit(1) \/ \E save_ok \in BOOLEAN : Save(1, save_ok)

\* __exit__ applied to every pair of a status text and a traceback.
SpecMessage == InitMessage /\ [][NextMessage]_vars

\* ------------------------------------------------------------ hourly job
HourlyMins == 60
WaitMins == HourlyMins + 1

HourlyJobClass == JobClass("A", Schedule(HourlyMins, << >>, NoneMins), TRUE)

InitHourly == InitWith({HourlyJobClass})

\* The caller lets WaitMins minutes pass, once.
Wait ==
    /\ clock <= MaxClock
    /\ \A p \in Callers : pc[p] # "done"
    /\ clock' = clock + WaitMins
    /\ UNCHANGED <<job, log, mgr, pc, inv>>

\* A step of the caller: the schedule has neither retry_after_failure_mins
\* nor run_at_times, so should_run_now has the steps of lines 64, 76 and 80.
HourlyStep(p) ==
    \/ Construct(p)
    \/ Enter(p)
    \/ Run(p, FALSE)
    \/ ShouldRunNow(p, FALSE)
    \/ QueryLast(p)
    \/ QueryPrev(p)
    \/ ReadEvery(p)
    \/ \E r \in DoReturns : DoReturn(p, r)
    \/ DoRaise(p)
    \/ Exit(p)
    \/ \E save_ok \in BOOLEAN : Save(p, save_ok)
    \/ Return(p)

NextHourly == Tick \/ Wait \/ HourlyStep(1)

\* One caller runs the hourly job without force, at once or after a wait.
SpecHourly == InitHourly /\ [][NextHourly]_vars

\* --------------------------------------------------------- two callers
\* Two callers (two processes of the cron runner) run the same job, with
\* the interval schedule and a do() that returns; their steps and the
\* clock's interleave in any order.
\* A step of caller p, who keeps its manager; the schedule has neither
\* retry_after_failure_mins nor run_at_times, so should_run_now has the
\* steps of lines 64, 76 and 80.
ConcurrentStep(p) ==
    \/ Enter(p)
    \/ \E force \in BOOLEAN : Run(p, force)
    \/ QueryLast(p)
    \/ QueryPrev(p)
    \/ ReadEvery(p)
    \/ \E r \in DoReturns : DoReturn(p, r)
    \/ Exit(p)
    \/ \E save_ok \in BOOLEAN : Save(p, save_ok)
    \/ Return(p)

NextConcurrent == Tick \/ ConcurrentStep(1) \/ ConcurrentStep(2)

ConcurrentJobClasses ==
    {c \in JobClasses :
        /\ c.is_cron_job
        /\ c.schedule.retry_after_failure_mins = NoneMins
        /\ c.schedule.run_every_mins # NoneMins
        /\ c.schedule.run_at_times = << >>}

\* The callers start a minute before the clock's last value.
InitConcurrent ==
    /\ job \in ConcurrentJobClasses
    /\ clock = MaxClock - 1
    /\ log = <<OtherJobRow>>
    /\ mgr = [p \in Callers |-> NewManager(job)]
    /\ pc = [p \in Callers |-> "idle"]
    /\ inv = [p \in Callers |-> NoInvocation]

SpecConcurrent == InitConcurrent /\ [][NextConcurrent]_vars

TypeOK ==
    /\ clock \in InitClock..(MaxClock + WaitMins)
    /\ Len(log) <= Len(<<OtherJobRow>>) + MaxLog
    /\ \A p \in Callers : pc[p] \in {"idle", "entered", "q_last", "t_retry", "q_prev", "t_every",
                                     "t_hour", "t_minute", "t_today", "q_slot",
                                     "running", "exiting", "saving", "done"}

\* ------------------------------------------------------- from midnight on
\* Every job class, one caller, forced and unforced invocations and direct
\* calls, from midnight: the clock goes from two minutes before its last
\* value.
InitLate ==
    /\ job \in JobClasses
    /\ clock = MaxClock - 2
    /\ log = <<OtherJobRow>>
    /\ mgr = [p \in Callers |-> NewManager(job)]
    /\ pc = [p \in Callers |-> "idle"]
    /\ inv = [p \in Callers |-> NoInvocation]

SpecLate == InitLate /\ [][Next]_vars

\* ------------------------------------------------------- a changed schedule
\* The class of code "A" had two times of day only; later it is given
\* run_every_mins = 2 and keeps one time of day.  Rows the first class
\* saved are in the log when a manager of the second one decides.
SlotsJobClass == JobClass("A", Schedule(NoneMins, <<T0001, T0000>>, NoneMins), TRUE)
ChangedJobClass == JobClass("A", Schedule(2, <<T0001>>, NoneMins), TRUE)
ChangedJobClasses == {SlotsJobClass, ChangedJobClass}

\* CronJobManager(cron_job_class) (lines 44-48) for the class given.
ConstructClass(p, cron_job_class) ==
    /\ pc[p] = "idle"
    /\ mgr[p] # NewManager(cron_job_class)
    /\ mgr' = [mgr EXCEPT ![p] = NewManager(cron_job_class)]
    /\ UNCHANGED <<job, clock, log, pc, inv>>

\* A step of caller p, who never forces; no schedule has
\* retry_after_failure_mins, so line 69 is not reached.
ChangedStep(p) ==
    \/ \E c \in ChangedJobClasses : ConstructClass(p, c)
    \/ Enter(p)
    \/ Run(p, FALSE)
    \/ ShouldRunNow(p, FALSE)
    \/ QueryLast(p)
    \/ QueryPrev(p)
    \/ ReadEvery(p)
    \/ ReadHour(p)
    \/ ReadMinute(p)
    \/ ReadToday(p)
    \/ QuerySlot(p)
    \/ \E r \in DoReturns : DoReturn(p, r)
    \/ DoRaise(p)
    \/ Exit(p)
    \/ \E save_ok \in BOOLEAN : Save(p, save_ok)
    \/ Return(p)

NextChanged == Tick \/ ChangedStep(1)

\* The callers start at midnight, two minutes before the clock's last
\* value.
InitChanged ==
    /\ job = SlotsJobClass
    /\ clock = MaxClock - 2
    /\ log = <<OtherJobRow>>
    /\ mgr = [p \in Callers |-> NewManager(job)]
    /\ pc = [p \in Callers |-> "idle"]
    /\ inv = [p \in Callers |-> NoInvocation]

SpecChanged == InitChanged /\ [][NextChanged]_vars

\* ------------------------------------------------------------- properties
\* should_run_now of caller p, called by run or by the caller itself, has
\* returned and the caller has done nothing to the log since.
Decided(p) ==
    /\ inv[p].decided
    /\ pc[p] \in {"running", "exiting"} \/ (pc[p] = "done" /\ inv[p].direct)

\* The clock did not advance during p's should_run_now call: all its
\* clock reads gave the same time, inv[p].now.
AtOnce(p) == inv[p].called = inv[p].now

\* The invocation `with manager: manager.run(force)` of caller p is over.
Over(p) == pc[p] = "done" /\ ~ inv[p].direct

\* Number of rows of a code in a log.
CountCode(lg, code) == Cardinality({i \in 1..Len(lg) : lg[i].code = code})

\* The minute of the day a configured time-of-day text names.
MinuteOfDay(time_data) ==
    CASE time_data = T0000 -> 0
      [] time_data = T0001 -> 1

CodeOf(p) == mgr[p].cron_job_class.code
ScheduleOf(p) == mgr[p].cron_job_class.schedule

\* C1: every invocation in which should_run_now returned true (and whose
\* save the log accepted) ends with exactly one more row of the job's code
\* than it started with, the new row has end_time >= start_time, and its
\* is_success is true exactly when do() returned without raising.
C1_OneRecordPerRun ==
    \A p \in Callers :
        (Over(p) /\ inv[p].decided /\ inv[p].ret /\ ~ inv[p].save_failed) =>
            /\ CountCode(log, CodeOf(p)) = CountCode(inv[p].log_before, CodeOf(p)) + 1
            /\ Len(log) = Len(inv[p].log_before) + 1
            /\ log[Len(log)].code = CodeOf(p)
            /\ log[Len(log)].end_time >= log[Len(log)].start_time
            /\ log[Len(log)].is_success = ~ inv[p].do_raised

\* C2: when do() raises, the invocation still returns normally to the
\* caller, and the attempt is a row with is_success = false (when the log
\* accepted the save), for a fresh manager as for a reused one.
C2_FailureIsolated ==
    \A p \in Callers :
        (Over(p) /\ inv[p].do_raised) =>
            /\ inv[p].outcome = "returned"
            /\ ~ inv[p].save_failed =>
                   /\ Len(log) = Len(inv[p].log_before) + 1
                   /\ ~ log[Len(log)].is_success

\* C3: an invocation without force in which should_run_now returned false
\* leaves the log as it was, does not call do() and returns normally.
C3_SkipLeavesNoTrace ==
    \A p \in Callers :
        (Over(p) /\ inv[p].decided /\ ~ inv[p].force /\ ~ inv[p].ret) =>
            /\ log = inv[p].log_before
            /\ ~ inv[p].did_do
            /\ inv[p].outcome = "returned"

\* C4: should_run_now(force=True) returns true and leaves user_time None,
\* for every schedule and every log, also when a configured slot is due or
\* an earlier call on the same manager matched a slot.
C4_ForceAlwaysRuns ==
    \A p \in Callers :
        (Decided(p) /\ inv[p].force) =>
            inv[p].ret /\ mgr[p].user_time = NoneVal

\* A configured slot is at or before the time of day of the decision and no
\* row of the code tagged with it started after today's midnight.
SlotOpen(p, k) ==
    LET time_data == ScheduleOf(p).run_at_times[k] IN
    /\ MinuteOfDay(time_data) <= inv[p].now % MinsPerDay
    /\ ~ \E i \in 1..Len(log) :
           /\ log[i].code = CodeOf(p)
           /\ log[i].ran_at_time = time_data
           /\ log[i].start_time > (inv[p].now \div MinsPerDay) * MinsPerDay

\* C4's case: a forced call on a manager whose earlier call matched a slot,
\* while a configured slot is due.
C4_Witness ==
    \E p \in Callers :
        /\ Decided(p) /\ inv[p].force
        /\ inv[p].user_time_before \notin {Unset, NoneVal}
        /\ \E k \in 1..Len(ScheduleOf(p).run_at_times) : SlotOpen(p, k)

\* C4's other cases: a forced call for the empty schedule, and one for a
\* schedule whose latest row failed inside its retry window.
C4_EmptyScheduleReached ==
    \E p \in Callers :
        /\ Decided(p) /\ inv[p].force /\ inv[p].ret
        /\ ScheduleOf(p) = Schedule(NoneMins, << >>, NoneMins)

C4_RetryWindowReached ==
    \E p \in Callers :
        /\ Decided(p) /\ inv[p].force /\ inv[p].ret
        /\ ScheduleOf(p).retry_after_failure_mins # NoneMins
        /\ \E l \in Latest(log, FilterCode(log, CodeOf(p))) :
              /\ l # 0 /\ ~ log[l].is_success
              /\ inv[p].called <= log[l].start_time
                                      + ScheduleOf(p).retry_after_failure_mins

\* C5: with run_every_mins set and no row of the job's code in the log
\* (rows of other codes may be there), should_run_now(force=False) returns
\* true.
C5_NoHistoryRuns ==
    \A p \in Callers :
        (/\ Decided(p) /\ ~ inv[p].force
         /\ ScheduleOf(p).run_every_mins # NoneMins
         /\ \A i \in 1..Len(log) : log[i].code # CodeOf(p)) =>
            inv[p].ret

\* C5's case: the log holds rows, none of the job's code, and the call ran.
C5_Witness ==
    \E p \in Callers :
        /\ Decided(p) /\ ~ inv[p].force
        /\ ScheduleOf(p).run_every_mins # NoneMins
        /\ Len(log) > 0
        /\ \A i \in 1..Len(log) : log[i].code # CodeOf(p)
        /\ inv[p].ret

\* The row the first latest('start_time') query of p's decision returned.
LastJob(p) == log[inv[p].last]

\* should_run_now(force=False) of p has returned for a schedule with
\* run_every_mins set, and the latest row of the code succeeded.
LatestSucceeded(p) ==
    /\ Decided(p) /\ ~ inv[p].force
    /\ ScheduleOf(p).run_every_mins # NoneMins
    /\ inv[p].last # 0
    /\ LastJob(p).is_success

NoSlotOpen(p) ==
    \A k \in 1..Len(ScheduleOf(p).run_at_times) : ~ SlotOpen(p, k)

\* C6 as stated: whenever the latest row of the code succeeded less than
\* run_every_mins minutes before now, tagged or not and whatever the
\* run_at_times, should_run_now(force=False) returns false.
C6_Original ==
    \A p \in Callers :
        (/\ LatestSucceeded(p)
         /\ inv[p].now - LastJob(p).start_time < ScheduleOf(p).run_every_mins) =>
            ~ inv[p].ret

\* C6 amended: if the latest row of the code succeeded, carries no
\* fixed-time tag and started less than run_every_mins minutes before now,
\* and no configured slot is open (at or before the current time of day
\* without a row of the code tagged with it that started after today's
\* midnight), should_run_now(force=False) returns false; now is the one
\* time all clock reads of the call gave.
C6_RecentSuccessWaits ==
    \A p \in Callers :
        (/\ LatestSucceeded(p) /\ AtOnce(p)
         /\ LastJob(p).ran_at_time = NoneVal
         /\ inv[p].now - LastJob(p).start_time < ScheduleOf(p).run_every_mins
         /\ NoSlotOpen(p)) =>
            ~ inv[p].ret

\* C6's case: an untagged success a minute ago, slots configured, none open.
C6_Witness ==
    \E p \in Callers :
        /\ LatestSucceeded(p) /\ AtOnce(p)
        /\ LastJob(p).ran_at_time = NoneVal
        /\ inv[p].now - LastJob(p).start_time < ScheduleOf(p).run_every_mins
        /\ inv[p].now > LastJob(p).start_time
        /\ ScheduleOf(p).run_at_times # << >>
        /\ NoSlotOpen(p)
        /\ ~ inv[p].ret

\* C7: if the latest row of the code succeeded more than run_every_mins
\* minutes before now, should_run_now(force=False) returns true; for a
\* schedule without run_at_times whose latest row is an untagged success
\* started exactly run_every_mins minutes before now, it returns false.
\* now is the time the call read at line 80: the time it returned, which
\* for a schedule with run_at_times is that of line 80 when the clock did
\* not advance during the call.
C7_StrictInterval ==
    \A p \in Callers :
        LatestSucceeded(p) =>
            /\ (/\ AtOnce(p) \/ ScheduleOf(p).run_at_times = << >>
                /\ inv[p].now - LastJob(p).start_time > ScheduleOf(p).run_every_mins)
                   => inv[p].ret
            /\ (/\ ScheduleOf(p).run_at_times = << >>
                /\ LastJob(p).ran_at_time = NoneVal
                /\ inv[p].now = LastJob(p).start_time + ScheduleOf(p).run_every_mins)
                   => ~ inv[p].ret

\* C7's boundary case: interval only, untagged success exactly
\* run_every_mins minutes ago, no run.
C7_Witness ==
    \E p \in Callers :
        /\ LatestSucceeded(p)
        /\ ScheduleOf(p).run_at_times = << >>
        /\ LastJob(p).ran_at_time = NoneVal
        /\ inv[p].now = LastJob(p).start_time + ScheduleOf(p).run_every_mins
        /\ ~ inv[p].ret

\* C7's other case: a success more than run_every_mins minutes ago, a run.
C7_ElapsedReached ==
    \E p \in Callers :
        /\ LatestSucceeded(p)
        /\ inv[p].now - LastJob(p).start_time > ScheduleOf(p).run_every_mins
        /\ inv[p].ret

\* should_run_now(force=False) of p has returned for a schedule with
\* run_every_mins and retry_after_failure_mins set, and the latest row of
\* the code failed.
LatestFailedUnderRetry(p) ==
    /\ Decided(p) /\ ~ inv[p].force
    /\ ScheduleOf(p).run_every_mins # NoneMins
    /\ ScheduleOf(p).retry_after_failure_mins > 0
    /\ inv[p].last # 0
    /\ ~ LastJob(p).is_success

\* C8: when the latest row of the code failed and retry_after_failure_mins
\* = R is set, should_run_now(force=False) returns true exactly when
\* now > start_time of that row + R, whatever run_every_mins and the older
\* rows say.
C8_RetryWindow ==
    \A p \in Callers :
        LatestFailedUnderRetry(p) =>
            (inv[p].ret <=>
                inv[p].now > LastJob(p).start_time + ScheduleOf(p).retry_after_failure_mins)

\* C8's case: inside the retry window, no run, although an older untagged
\* success lies more than run_every_mins minutes back.
C8_Witness ==
    \E p \in Callers :
        /\ LatestFailedUnderRetry(p)
        /\ inv[p].now <= LastJob(p).start_time + ScheduleOf(p).retry_after_failure_mins
        /\ \E i \in FilterCode(log, CodeOf(p)) :
              /\ log[i].is_success /\ log[i].ran_at_time = NoneVal
              /\ inv[p].now > log[i].start_time + ScheduleOf(p).run_every_mins
        /\ ~ inv[p].ret

\* C8's other cases: past the retry window, a run.
C8_RetryReached ==
    \E p \in Callers :
        /\ LatestFailedUnderRetry(p)
        /\ inv[p].now > LastJob(p).start_time + ScheduleOf(p).retry_after_failure_mins
        /\ inv[p].ret

\* A configured slot is at or before the time of day of the decision and no
\* row of the code tagged with it started on the date of the decision.
SlotFree(p, k) ==
    LET time_data == ScheduleOf(p).run_at_times[k] IN
    /\ MinuteOfDay(time_data) <= inv[p].now % MinsPerDay
    /\ ~ \E i \in 1..Len(log) :
           /\ log[i].code = CodeOf(p)
           /\ log[i].ran_at_time = time_data
           /\ log[i].start_time \div MinsPerDay = inv[p].now \div MinsPerDay

FirstFree(p) ==
    CHOOSE k \in 1..Len(ScheduleOf(p).run_at_times) :
        /\ SlotFree(p, k)
        /\ \A j \in 1..(k - 1) : ~ SlotFree(p, j)

\* C9: for a schedule with only run_at_times, should_run_now(force=False)
\* returns true exactly when some configured slot is at or before the
\* current time of day and has no row of the code with that slot and a
\* start time on the current date; user_time is then the first such slot.
C9_FixedTimeExact ==
    \A p \in Callers :
        (/\ Decided(p) /\ ~ inv[p].force
         /\ ScheduleOf(p).run_every_mins = NoneMins
         /\ ScheduleOf(p).run_at_times # << >>) =>
            /\ inv[p].ret <=>
                   \E k \in 1..Len(ScheduleOf(p).run_at_times) : SlotFree(p, k)
            /\ inv[p].ret =>
                   /\ \E k \in 1..Len(ScheduleOf(p).run_at_times) : SlotFree(p, k)
                   /\ mgr[p].user_time = ScheduleOf(p).run_at_times[FirstFree(p)]

\* What the code does in C9's place: the same with "started after today's
\* midnight" for "started on the current date".
FixedTimeAfterMidnight ==
    \A p \in Callers :
        (/\ Decided(p) /\ ~ inv[p].force /\ AtOnce(p)
         /\ ScheduleOf(p).run_every_mins = NoneMins
         /\ ScheduleOf(p).run_at_times # << >>) =>
            /\ inv[p].ret <=>
                   \E k \in 1..Len(ScheduleOf(p).run_at_times) : SlotOpen(p, k)
            /\ inv[p].ret =>
                   \E k \in 1..Len(ScheduleOf(p).run_at_times) :
                       /\ SlotOpen(p, k)
                       /\ \A j \in 1..(k - 1) : ~ SlotOpen(p, j)
                       /\ mgr[p].user_time = ScheduleOf(p).run_at_times[k]

\* C10: the log never holds two rows of one code tagged with the same slot
\* whose start times fall on the same date.
C10_OncePerDay ==
    \A i, j \in 1..Len(log) :
        (/\ i # j
         /\ log[i].code = log[j].code
         /\ log[i].ran_at_time # NoneVal
         /\ log[i].ran_at_time = log[j].ran_at_time) =>
            log[i].start_time \div MinsPerDay # log[j].start_time \div MinsPerDay

\* The row the invocation of caller p saved.
SavedRow(p) == log[Len(log)]

\* The invocation of caller p is over and saved the row of a failure.
FailureSaved(p) ==
    /\ Over(p) /\ inv[p].outcome = "returned" /\ ~ inv[p].save_failed
    /\ inv[p].ex # NoneVal

\* The last k characters of s.
LastChars(s, k) == SubSeq(s, Len(s) - k + 1, Len(s))

\* C11: when do() fails with a traceback of more than 1000 characters and
\* self.msg holds 50 characters, the saved message has exactly 1000
\* characters, starts with those 50 and ends with the last 945 characters
\* of the traceback; when self.msg holds nothing, the saved message is
\* the last 1000 characters of the traceback.
C11_FailureMessageShape ==
    \A p \in Callers :
        (FailureSaved(p) /\ Len(inv[p].ex) > MsgLimit) =>
            LET m == SavedRow(p).message
                d == inv[p].ex
                c == mgr[p].msg
                room == MsgLimit - PrefixLen - Len(Sep)
            IN  /\ (c # NoneVal /\ Len(c) = PrefixLen) =>
                       /\ Len(m) = MsgLimit
                       /\ SubSeq(m, 1, PrefixLen) = c
                       /\ LastChars(m, room) = LastChars(d, room)
                /\ ~ Truthy(c) => m = LastChars(d, MsgLimit)

C11_Witness ==
    \E p \in Callers :
        /\ FailureSaved(p) /\ Len(inv[p].ex) > MsgLimit
        /\ mgr[p].msg # NoneVal /\ Len(mgr[p].msg) = PrefixLen
        /\ Len(SavedRow(p).message) = MsgLimit

\* C12: every saved row has a message of at most 1000 characters, whatever
\* the length of the text do() returned and whatever the lengths of
\* self.msg and of the traceback when do() raised.
C12_MessageBounded ==
    \A i \in 1..Len(log) : Len(log[i].message) <= MsgLimit

\* C13: when save() raises, the except clause of lines 130-133 takes it:
\* the with statement ends normally, do() was run at most the one time of
\* this invocation, and the log is what it was when the invocation began.
C13_SaveFailureAbsorbed ==
    \A p \in Callers :
        (Over(p) /\ inv[p].save_failed) =>
            /\ inv[p].outcome = "returned"
            /\ inv[p].save_called
            /\ log = inv[p].log_before

C13_Witness ==
    \E p \in Callers :
        /\ Over(p) /\ inv[p].save_failed /\ inv[p].did_do
        /\ inv[p].outcome = "returned" /\ log = inv[p].log_before

\* The class of caller p's manager is not a subclass of CronJobBase.
NotACronJob(p) == ~ mgr[p].cron_job_class.is_cron_job

\* C14: run of a class that is not a subclass of CronJobBase raises at
\* once: no job object is made, should_run_now is not called, do() is not
\* run, the error leaves the with statement and no row is saved.
C14_NotASubclassRaises ==
    \A p \in Callers :
        NotACronJob(p) =>
            /\ ~ mgr[p].has_cron_job
            /\ ~ inv[p].decided
            /\ ~ inv[p].did_do
            /\ pc[p] \in {"idle", "entered", "exiting", "done"}
            /\ (pc[p] = "exiting" \/ Over(p)) =>
                   inv[p].ex = Traceback /\ log = inv[p].log_before
            /\ Over(p) => inv[p].outcome = "raised" /\ ~ inv[p].save_called

C14_Witness ==
    \E p \in Callers :
        /\ NotACronJob(p) /\ Over(p)
        /\ inv[p].outcome = "raised" /\ log = inv[p].log_before

\* C15: for the job with run_every_mins = 60 and nothing else, run
\* without force and with a do() that returns: on an empty history the
\* run executes do() and saves a success row; when the one row of the
\* history is a success of the same minute, the run does not execute do()
\* and saves nothing; when that row is 61 minutes old, the run executes
\* do() and saves the second row.
C15_HourlyScenario ==
    \A p \in Callers :
        (/\ Over(p) /\ inv[p].decided /\ ~ inv[p].force
         /\ ~ inv[p].do_raised /\ ~ inv[p].save_failed
         /\ mgr[p].cron_job_class = HourlyJobClass) =>
            LET before == inv[p].log_before
                rows == FilterCode(before, CodeOf(p))
                ran == /\ inv[p].did_do
                       /\ Len(log) = Len(before) + 1
                       /\ SavedRow(p).code = CodeOf(p)
                       /\ SavedRow(p).is_success
            IN  /\ rows = {} => ran
                /\ \A i \in rows :
                      (rows = {i} /\ before[i].is_success) =>
                          /\ inv[p].now = before[i].start_time =>
                                 ~ inv[p].did_do /\ log = before
                          /\ inv[p].now = before[i].start_time + WaitMins =>
                                 ran /\ CountCode(log, CodeOf(p)) = 2

\* Callers p and q ran without force, both read the log when it had the
\* same rows, both got true, and both invocations are over with the row
\* saved.
BothRanOnOneRead(p, q) ==
    /\ p # q
    /\ \A r \in {p, q} :
          /\ Over(r) /\ inv[r].decided /\ ~ inv[r].force /\ inv[r].ret
          /\ inv[r].outcome = "returned" /\ ~ inv[r].save_failed
    /\ inv[p].read_len = inv[q].read_len

\* C16: nothing makes the runs of two callers exclude each other: when
\* both read the log before either saved and both got true, both ran
\* do() and the log holds the rows of both.
C16_NoMutualExclusion ==
    \A p, q \in Callers :
        BothRanOnOneRead(p, q) =>
            LET n == inv[p].read_len IN
            /\ inv[p].did_do /\ inv[q].did_do
            /\ Len(log) = n + 2
            /\ log[n + 1].code = CodeOf(p) /\ log[n + 2].code = CodeOf(p)

\* Both rows are of the same minute and of the same slot (or of none).
C16_Witness ==
    \E p, q \in Callers :
        /\ BothRanOnOneRead(p, q)
        /\ inv[p].did_do /\ inv[q].did_do
        /\ LET n == inv[p].read_len IN
           /\ Len(log) = n + 2
           /\ log[n + 1].start_time = log[n + 2].start_time
           /\ log[n + 1].ran_at_time = log[n + 2].ran_at_time

\* Where a caller is when its next step is one of should_run_now (or of
\* run before it, or a direct call).
BeforeReturn ==
    {"idle", "entered", "q_last", "t_retry", "q_prev", "t_every",
     "t_hour", "t_minute", "t_today", "q_slot"}

\* C17: every step leaves the rows of the log in place and unchanged (the
\* log only grows at its end), and every step of should_run_now, called by
\* run or directly, leaves the log as it is.
C17_AppendOnly ==
    [][/\ Len(log') >= Len(log)
       /\ SubSeq(log', 1, Len(log)) = log
       /\ \A p \in Callers :
             (pc[p] \in BeforeReturn /\ pc'[p] # pc[p]) => log' = log]_vars

\* C17's case: a failing run saved its row behind two older rows.
C17_Witness ==
    \E p \in Callers :
        /\ Over(p) /\ inv[p].do_raised /\ ~ inv[p].save_failed
        /\ inv[p].user_time_before # mgr[p].user_time
        /\ Len(inv[p].log_before) >= 2
        /\ Len(log) = Len(inv[p].log_before) + 1
        /\ SubSeq(log, 1, Len(inv[p].log_before)) = inv[p].log_before

\* C18: with run_every_mins, retry_after_failure_mins and run_at_times all
\* set, a failed latest row and a retry window that has not elapsed,
\* should_run_now(force=False) returns false and matches no slot.
C18_RetryBeforeSlots ==
    \A p \in Callers :
        (/\ LatestFailedUnderRetry(p)
         /\ ScheduleOf(p).run_at_times # << >>
         /\ inv[p].now <= LastJob(p).start_time
                              + ScheduleOf(p).retry_after_failure_mins) =>
            ~ inv[p].ret /\ mgr[p].user_time = NoneVal

\* C18's case: a slot is at or past and has no row today.
C18_Witness ==
    \E p \in Callers :
        /\ LatestFailedUnderRetry(p)
        /\ inv[p].now <= LastJob(p).start_time
                             + ScheduleOf(p).retry_after_failure_mins
        /\ \E k \in 1..Len(ScheduleOf(p).run_at_times) : SlotOpen(p, k) /\ SlotFree(p, k)
        /\ ~ inv[p].ret

\* A row of p's code tagged with slot k has a start_time on the date of
\* p's should_run_now call.
SlotRecordedToday(p, k) ==
    \E i \in FilterCode(log, CodeOf(p)) :
        /\ log[i].ran_at_time = ScheduleOf(p).run_at_times[k]
        /\ log[i].start_time \div MinsPerDay = inv[p].now \div MinsPerDay

\* C19: for a schedule of run_at_times alone, should_run_now(force=False)
\* never matches a slot that has a row, successful or failed, on the same
\* calendar date.
C19_SlotNotRetriedToday ==
    \A p \in Callers :
        (/\ Decided(p) /\ ~ inv[p].force
         /\ ScheduleOf(p).run_every_mins = NoneMins) =>
            \A k \in 1..Len(ScheduleOf(p).run_at_times) :
                SlotRecordedToday(p, k) =>
                    mgr[p].user_time # ScheduleOf(p).run_at_times[k]

\* C20: with run_every_mins set and no retry_after_failure_mins, when no
\* row of the code is a success without ran_at_time,
\* should_run_now(force=False) returns true.
C20_OnlyUntaggedSuccessPostpones ==
    \A p \in Callers :
        (/\ Decided(p) /\ ~ inv[p].force
         /\ ScheduleOf(p).run_every_mins # NoneMins
         /\ ScheduleOf(p).retry_after_failure_mins = NoneMins
         /\ \A i \in FilterCode(log, CodeOf(p)) :
               ~ log[i].is_success \/ log[i].ran_at_time # NoneVal) =>
            inv[p].ret

\* C20's case: the rows of the code are a success with ran_at_time and a
\* failure, the latest of them a success of less than run_every_mins
\* minutes ago.
C20_Witness ==
    \E p \in Callers :
        /\ Decided(p) /\ ~ inv[p].force
        /\ ScheduleOf(p).run_every_mins # NoneMins
        /\ ScheduleOf(p).retry_after_failure_mins = NoneMins
        /\ inv[p].last # 0
        /\ LastJob(p).is_success /\ LastJob(p).ran_at_time # NoneVal
        /\ inv[p].called - LastJob(p).start_time < ScheduleOf(p).run_every_mins
        /\ \E i \in FilterCode(log, CodeOf(p)) : ~ log[i].is_success
        /\ FilterSuccessUntagged(log, CodeOf(p)) = {}
        /\ inv[p].ret

\* C20's other case: every row of the code is a failure, the latest of
\* this very minute.
C20_FailuresReached ==
    \E p \in Callers :
        /\ Decided(p) /\ ~ inv[p].force
        /\ ScheduleOf(p).run_every_mins # NoneMins
        /\ ScheduleOf(p).retry_after_failure_mins = NoneMins
        /\ inv[p].last # 0
        /\ \A i \in FilterCode(log, CodeOf(p)) : ~ log[i].is_success
        /\ LastJob(p).start_time = inv[p].now
        /\ inv[p].ret

====
